---- MODULE Spec2Model ----
(***************************************************************************)
(* kafka-desktop-viewer: the Electron main process (consumer lifecycle,   *)
(* src/unnamed/part_000) and the renderer's App component (bounded        *)
(* ingestion buffer, src/README.md lines 15-268).                         *)
(*                                                                         *)
(* The main process is one JavaScript event loop.  A handler runs without *)
(* interruption from one await of a broker-client promise to the next;    *)
(* every action below is one such run.  An await of a promise that is     *)
(* already settled (await stopConsumer() when no consumer is held) resumes *)
(* in the same macrotask, so it is not a scheduling point.                *)
(*                                                                         *)
(* The kafkajs consumer is an external collaborator.  Every awaited call  *)
(* on it settles either way (resolve / reject) nondeterministically, and  *)
(* has its effect on the consumer object when it resolves; a rejected     *)
(* stop() or disconnect() may or may not have taken effect.               *)
(*                                                                         *)
(* webContents.send messages and invoke replies reach the page in the     *)
(* order the main process issued them (one channel, wire).                *)
(***************************************************************************)
EXTENDS Integers, Sequences, FiniteSets, TLC

\* ------------------------------------------------------------------ bounds
MaxCalls == 2
MaxAppCalls == 3
MaxSent == 2
MaxQueue == 2
MaxPending == 1
MaxArrive == 600
MaxResets == 1
MaxStrict == 4
MaxKept == 2
MaxQuery == 3
\* MaxCalls: IPC requests per behaviour when the page may invoke the bridge
\* at any time (Spec); MaxAppCalls: requests per behaviour issued through the
\* App's buttons (SpecApp); MaxSent: records sent to the sink; MaxQueue:
\* records waiting in queueRef; MaxPending: queued executions of the flush
\* updater; MaxArrive: records arriving per session at the buffer alone
\* (SpecBuf); MaxResets: start-resets of the buffer alone (SpecBuf);
\* MaxStrict: records arriving per session when updaters may run twice
\* (SpecBufStrict); MaxKept: records in the buffer that is filtered, and
\* MaxQuery: characters in the search box (SpecFilter).

\* --------------------------------------------------------------- constants
Configs == {"A", "B"}                 \* two distinct StartConfig values
\* cfg.mask of the two configs: A has masking off, B has masking on.
mask == [cfg \in Configs |-> cfg = "B"]
CallIds == 1..(IF MaxCalls > MaxAppCalls THEN MaxCalls ELSE MaxAppCalls)
MAX_MESSAGES == 500
NoConsumer == 0                       \* consumer = null

VARIABLES
    consumer,   \* part_000:25  the held consumer handle (0 = null)
    running,    \* part_000:26  the running flag
    kc,         \* the kafkajs consumer objects created so far, by id
    calls,      \* the invocations of the IPC handlers, by id
    ncalls,     \* number of handler invocations so far
    wire,       \* main -> renderer channel: records sent and invoke replies
    nsent,      \* number of records passed to win.webContents.send so far
    status,     \* README.md:48  the App's status state
    messages,   \* README.md:53  the App's messages state (RetainedBuffer)
    queueRef,   \* README.md:54  queueRef.current (transient queue)
    pending,    \* flush updaters passed to setMessages and not yet executed
    reqs,       \* renderer -> main channel: ipcRenderer.invoke requests
    arrived,    \* SpecBuf: records that arrived since the last reset
    session,    \* the subscription the buffers were last reset for
    search,     \* README.md:50  the App's search state (the filter query)
    message,    \* part_000:99  the broker message passed to eachMessage
    out         \* part_000:112  the KafkaMsg that eachMessage builds

mainVars == <<consumer, running, kc, calls, ncalls, wire, nsent, message, out>>
uiVars == <<status, messages, queueRef, pending, reqs, arrived, session, search>>
vars == <<consumer, running, kc, calls, ncalls, wire, nsent, status, messages,
          queueRef, pending, reqs, arrived, session, search, message, out>>

\* A consumer object as returned by kafka.consumer({groupId}) (part_000:92).
\* cfg: the StartConfig whose brokers/groupId it was created with;
\* topics: the topics of the subscribe calls that resolved on it;
\* cb: the start call whose eachMessage closure the run loop invokes;
\* loop: the run loop is fetching and invoking the callback;
\* crashed: the run loop has ended on its own (history).
NewConsumer(cfg) ==
    [made |-> TRUE, cfg |-> cfg, connected |-> FALSE, topics |-> {},
     cb |-> 0, loop |-> FALSE, crashed |-> FALSE]

NotMade ==
    [made |-> FALSE, cfg |-> "-", connected |-> FALSE, topics |-> {},
     cb |-> 0, loop |-> FALSE, crashed |-> FALSE]

\* An invocation of an IPC handler.  pc: the broker call it awaits; tgt: the
\* consumer object that call was made on; res: how its promise settled;
\* conc: another invocation was still in progress when this one was
\* dispatched (history, read by no action).
NoCall ==
    [kind |-> "none", cfg |-> "-", pc |-> "idle", tgt |-> 0, res |-> "-",
     conc |-> FALSE]

InProgress(i) == calls[i].pc \notin {"idle", "done"}

\* The record eachMessage builds (part_000:112-122): src is the start call
\* whose closure (and cfg) built it, sub the consumer that received it, n its
\* number among the records sent.
Msg(src, sub, n) == [src |-> src, sub |-> sub, n |-> n]

\* The settlement of an ipcRenderer.invoke promise, on its way to the page.
Reply(i) == [reply |-> i]

IsReply(x) == "reply" \in DOMAIN x

\* An optional value: absent (null, undefined) or present.
Absent == <<>>
Some(x) == <<x>>

\* No message has been passed to eachMessage yet; no KafkaMsg built yet.
NoMessage == [key |-> Absent, value |-> Absent, timestamp |-> Absent,
              headers |-> Absent]
NoOut == [built |-> FALSE]

Init ==
    /\ consumer = NoConsumer
    /\ running = FALSE
    /\ kc = [c \in CallIds |-> NotMade]
    /\ calls = [i \in CallIds |-> NoCall]
    /\ ncalls = 0
    /\ wire = <<>>
    /\ nsent = 0
    /\ status = "stopped"
    /\ messages = <<>>
    /\ queueRef = <<>>
    /\ pending = 0
    /\ reqs = <<>>
    /\ arrived = 0
    /\ session = 0
    /\ search = <<>>
    /\ message = NoMessage
    /\ out = NoOut

\* ---------------------------------------------------- the handlers' steps

\* The handler's promise fulfils with {ok: true} (part_000:129, 134) and the
\* reply is put on the channel to the page.
Fulfils(i, c) ==
    /\ calls' = [calls EXCEPT ![i] = [c EXCEPT !.pc = "done", !.tgt = 0, !.res = "ok"]]
    /\ wire' = Append(wire, Reply(i))

\* The handler's promise rejects: the error propagates to the caller of
\* ipcRenderer.invoke; the handler has no catch or finally (part_000:84-130).
Rejects(i, c) ==
    /\ calls' = [calls EXCEPT ![i] = [c EXCEPT !.pc = "done", !.tgt = 0, !.res = "err"]]
    /\ wire' = Append(wire, Reply(i))

\* stopConsumer() has returned inside call i (c is the call's record, k the
\* consumer objects after the step's broker effect) and the handler goes on:
\* kafka:start creates the consumer, stores it in the global and calls
\* connect() (part_000:87-93); kafka:stop returns {ok: true} (part_000:134).
StopConsumerReturns(i, c, k) ==
    IF c.kind = "start"
    THEN /\ consumer' = i
         /\ kc' = [k EXCEPT ![i] = NewConsumer(c.cfg)]
         /\ calls' = [calls EXCEPT ![i] = [c EXCEPT !.pc = "connect", !.tgt = i]]
         /\ UNCHANGED wire
    ELSE /\ consumer' = NoConsumer
         /\ kc' = k
         /\ Fulfils(i, c)

\* Request with the null check of part_000:58 and the try/catch missing:
\* consumer.stop() on a null handle throws and the handler rejects.
Request_NoNullCheck(kind, cfg) ==
    LET i == ncalls + 1
        c == [kind |-> kind, cfg |-> cfg, pc |-> "stop", tgt |-> consumer,
              res |-> "pending", conc |-> \E j \in CallIds : InProgress(j)]
    IN  /\ ncalls' = i
        /\ running' = FALSE
        /\ IF consumer # NoConsumer
           THEN /\ calls' = [calls EXCEPT ![i] = c]
                /\ UNCHANGED wire
           ELSE Rejects(i, c)
        /\ UNCHANGED <<consumer, kc, nsent, message, out>>

\* A kafka:start (cfg) or kafka:stop request is dispatched to its handler,
\* which calls stopConsumer(): running = false; if a consumer is held,
\* consumer.stop() is called on it and awaited (part_000:56-60).
Request(kind, cfg) ==
    LET i == ncalls + 1
        c == [kind |-> kind, cfg |-> cfg, pc |-> "stop", tgt |-> consumer,
              res |-> "pending", conc |-> \E j \in CallIds : InProgress(j)]
    IN  /\ ncalls' = i
        /\ running' = FALSE
        /\ IF consumer # NoConsumer
           THEN /\ calls' = [calls EXCEPT ![i] = c]
                /\ UNCHANGED <<consumer, kc, wire>>
           ELSE StopConsumerReturns(i, c, kc)
        /\ UNCHANGED <<nsent, message, out>>

\* await consumer.stop() settles (part_000:60).  Resolved: the target's run
\* loop has ended, and consumer.disconnect() is evaluated on the global as it
\* is now (part_000:61); a null global throws a TypeError into the catch.
\* Rejected: the catch swallows it; the loop may have ended or not (done).
\* After the catch, consumer = null (part_000:65) and stopConsumer returns.
StopSettles(i, ok, done) ==
    /\ calls[i].pc = "stop"
    /\ ok => done
    /\ LET c == calls[i]
           k == IF done THEN [kc EXCEPT ![c.tgt].loop = FALSE] ELSE kc
       IN  IF ok /\ consumer # NoConsumer
           THEN /\ calls' = [calls EXCEPT ![i] = [c EXCEPT !.pc = "disconnect", !.tgt = consumer]]
                /\ kc' = k
                /\ UNCHANGED <<consumer, wire>>
           ELSE StopConsumerReturns(i, c, k)
    /\ UNCHANGED <<running, ncalls, nsent, message, out>>
    /\ UNCHANGED uiVars

\* await consumer.disconnect() settles (part_000:61), then consumer = null
\* (part_000:65) whether it resolved or was caught.  Rejected: the
\* connection may have been closed or not (done).
DisconnectSettles(i, ok, done) ==
    /\ calls[i].pc = "disconnect"
    /\ ok => done
    /\ LET c == calls[i]
           k == IF done THEN [kc EXCEPT ![c.tgt].connected = FALSE, ![c.tgt].loop = FALSE]
                        ELSE kc
       IN  StopConsumerReturns(i, c, k)
    /\ UNCHANGED <<running, ncalls, nsent, message, out>>
    /\ UNCHANGED uiVars

\* await consumer.connect() settles (part_000:93); on success
\* consumer.subscribe(...) is evaluated on the global as it is now
\* (part_000:94), a TypeError if it is null.
ConnectSettles(i, ok) ==
    /\ calls[i].pc = "connect"
    /\ LET c == calls[i]
       IN  /\ kc' = IF ok THEN [kc EXCEPT ![c.tgt].connected = TRUE] ELSE kc
           /\ IF ok /\ consumer # NoConsumer
              THEN /\ calls' = [calls EXCEPT ![i] = [c EXCEPT !.pc = "subscribe", !.tgt = consumer]]
                   /\ UNCHANGED wire
              ELSE Rejects(i, c)
    /\ UNCHANGED <<consumer, running, ncalls, nsent, message, out>>
    /\ UNCHANGED uiVars

\* await consumer.subscribe({topic: cfg.topic, ...}) settles (part_000:94);
\* on success running = true (part_000:96) and consumer.run({eachMessage})
\* is evaluated on the global as it is now (part_000:98).  kafkajs refuses a
\* subscribe on a consumer whose run loop is active.
SubscribeSettles(i, ok) ==
    /\ calls[i].pc = "subscribe"
    /\ ok => ~kc[calls[i].tgt].loop
    /\ LET c == calls[i]
       IN  /\ kc' = IF ok THEN [kc EXCEPT ![c.tgt].topics = @ \cup {c.cfg}] ELSE kc
           /\ running' = IF ok THEN TRUE ELSE running
           /\ IF ok /\ consumer # NoConsumer
              THEN /\ calls' = [calls EXCEPT ![i] = [c EXCEPT !.pc = "run", !.tgt = consumer]]
                   /\ UNCHANGED wire
              ELSE Rejects(i, c)
    /\ UNCHANGED <<consumer, ncalls, nsent, message, out>>
    /\ UNCHANGED uiVars

\* await consumer.run({eachMessage}) settles (part_000:98); on success the
\* handler returns {ok: true} (part_000:129).  kafkajs ignores run() on a
\* consumer whose loop is already active (the first callback stays).
RunSettles(i, ok) ==
    /\ calls[i].pc = "run"
    /\ LET c == calls[i]
       IN  /\ kc' = IF ok /\ ~kc[c.tgt].loop
                    THEN [kc EXCEPT ![c.tgt].cb = i, ![c.tgt].loop = TRUE]
                    ELSE kc
           /\ IF ok THEN Fulfils(i, c) ELSE Rejects(i, c)
    /\ UNCHANGED <<consumer, running, ncalls, nsent, message, out>>
    /\ UNCHANGED uiVars

\* win is set by createWindow() before any request and never set to null
\* (part_000:5, 37).
win == TRUE

\* The guard of eachMessage (part_000:100): the record is dropped.
Dropped == ~running \/ ~win

\* The run loop of consumer c invokes its eachMessage callback for one
\* record (part_000:99-126): dropped by the guard, else normalized and sent.
EachMessage(c) ==
    /\ kc[c].loop
    /\ nsent < MaxSent
    /\ IF Dropped
       THEN UNCHANGED <<wire, nsent>>
       ELSE /\ wire' = Append(wire, Msg(kc[c].cb, c, nsent + 1))
            /\ nsent' = nsent + 1
    /\ UNCHANGED <<consumer, running, kc, calls, ncalls, message, out>>
    /\ UNCHANGED uiVars

\* ------------------------------------------- Spec: the main process alone
\* The preload bridge exposes start and stop to the page (preload.ts:3-8);
\* requests arrive at any time, in any order.

StartRequest ==
    /\ ncalls < MaxCalls
    /\ \E cfg \in Configs : Request("start", cfg)
    /\ UNCHANGED uiVars

StopRequest ==
    /\ ncalls < MaxCalls
    /\ Request("stop", "-")
    /\ UNCHANGED uiVars

Stop_ok == \E i \in CallIds : StopSettles(i, TRUE, TRUE)
Stop_throws == \E i \in CallIds, done \in BOOLEAN : StopSettles(i, FALSE, done)
Disconnect_ok == \E i \in CallIds : DisconnectSettles(i, TRUE, TRUE)
Disconnect_throws == \E i \in CallIds, done \in BOOLEAN : DisconnectSettles(i, FALSE, done)
Connect_ok == \E i \in CallIds : ConnectSettles(i, TRUE)
Connect_throws == \E i \in CallIds : ConnectSettles(i, FALSE)
Subscribe_ok == \E i \in CallIds : SubscribeSettles(i, TRUE)
Subscribe_throws == \E i \in CallIds : SubscribeSettles(i, FALSE)
Run_ok == \E i \in CallIds : RunSettles(i, TRUE)
Run_throws == \E i \in CallIds : RunSettles(i, FALSE)
Record == \E c \in CallIds : EachMessage(c)

MainStep ==
    \/ Stop_ok
    \/ Stop_throws
    \/ Disconnect_ok
    \/ Disconnect_throws
    \/ Connect_ok
    \/ Connect_throws
    \/ Subscribe_ok
    \/ Subscribe_throws
    \/ Run_ok
    \/ Run_throws
    \/ Record

Next ==
    \/ StartRequest
    \/ StopRequest
    \/ MainStep

Spec == Init /\ [][Next]_vars

\* ------------------------------------------------ the renderer: App state

\* merged.slice(merged.length - MAX_MESSAGES - 1): one record too many kept.
Flush_KeepsOneMore(prev, q) ==
    LET merged == prev \o q
    IN  IF Len(merged) <= MAX_MESSAGES THEN merged
        ELSE SubSeq(merged, Len(merged) - MAX_MESSAGES, Len(merged))

\* merged.slice(0, MAX_MESSAGES): the newest records dropped, not the oldest.
Flush_DropsNewest(prev, q) ==
    LET merged == prev \o q
    IN  IF Len(merged) <= MAX_MESSAGES THEN merged
        ELSE SubSeq(merged, 1, MAX_MESSAGES)

\* The value the setMessages updater returns (README.md:66-69):
\* prev.concat(queue), cut to its last MAX_MESSAGES records.
Flush(prev, q) ==
    LET merged == prev \o q
    IN  IF Len(merged) <= MAX_MESSAGES THEN merged
        ELSE SubSeq(merged, Len(merged) - MAX_MESSAGES + 1, Len(merged))

\* The flush timer fires (README.md:62-71): nothing if the queue is empty,
\* else the updater is passed to setMessages, to be executed by React.
Tick ==
    /\ queueRef # <<>>
    /\ pending < MaxPending
    /\ pending' = pending + 1
    /\ UNCHANGED <<messages, queueRef, status, reqs, arrived, session, search>>
    /\ UNCHANGED mainVars

\* React executes a queued updater (README.md:65-70): the new messages
\* state is computed and queueRef.current is replaced by an empty array.
RunUpdater ==
    /\ pending > 0
    /\ messages' = Flush(messages, queueRef)
    /\ queueRef' = <<>>
    /\ pending' = pending - 1
    /\ UNCHANGED <<status, reqs, arrived, session, search>>
    /\ UNCHANGED mainVars

\* React executes a queued updater twice for one setMessages call and keeps
\* the second result (the double render of React.StrictMode in a development
\* build; updaters are required to be pure).  The first execution computes
\* prev.concat(queue) and sets queueRef.current = [] (README.md:66-67); the
\* second starts from the same prev and reads the emptied queue.
RunUpdaterTwice ==
    /\ pending > 0
    /\ messages' = Flush(messages, <<>>)
    /\ queueRef' = <<>>
    /\ pending' = pending - 1
    /\ UNCHANGED <<status, reqs, arrived, session, search>>
    /\ UNCHANGED mainVars

\* setMessages([]); queueRef.current = [] in a click handler (README.md:98-99,
\* 179-180).  React renders a click's updates before the handler's event
\* ends: updaters still queued run on the emptied queue, then [] replaces
\* their result.
Reset ==
    /\ messages' = <<>>
    /\ queueRef' = <<>>
    /\ pending' = 0

\* The Clear button (README.md:177-185).
Clear ==
    /\ Reset
    /\ arrived' = 0
    /\ UNCHANGED <<status, reqs, session, search>>
    /\ UNCHANGED mainVars

\* ------------------------------------------- SpecBuf: the buffer alone
\* Records arrive at the onMessage callback from an unspecified main
\* process; record n of session s is Msg(s, s, n).

\* window.kafkaAPI.onMessage callback (README.md:58-60): push on the queue.
Arrives ==
    /\ arrived < MaxArrive
    /\ Len(queueRef) < MaxQueue
    /\ queueRef' = Append(queueRef, Msg(session, session, arrived + 1))
    /\ arrived' = arrived + 1
    /\ UNCHANGED <<messages, pending, status, reqs, session, search>>
    /\ UNCHANGED mainVars

\* The reset of start() (README.md:97-99), for a new subscription.
StartReset ==
    /\ session < MaxResets
    /\ Reset
    /\ session' = session + 1
    /\ arrived' = 0
    /\ UNCHANGED <<status, reqs, search>>
    /\ UNCHANGED mainVars

NextBuf ==
    \/ Arrives
    \/ Tick
    \/ RunUpdater
    \/ Clear
    \/ StartReset

SpecBuf == Init /\ [][NextBuf]_vars

\* The buffer alone, under a React that may execute an updater twice; a
\* few records per session are enough.
ArrivesFew ==
    /\ arrived < MaxStrict
    /\ Arrives

NextBufStrict ==
    \/ ArrivesFew
    \/ Tick
    \/ RunUpdater
    \/ RunUpdaterTwice
    \/ Clear
    \/ StartReset

SpecBufStrict == Init /\ [][NextBufStrict]_vars

\* ------------------------------- SpecApp: the App driving the main process

\* The number the handler invocation of the next request will get.
NextCall == ncalls + Len(reqs) + 1

\* StartClick with the Start button never disabled.
StartClick_NotDisabled(cfg) ==
    /\ NextCall <= MaxAppCalls
    /\ Reset
    /\ status' = "starting"
    /\ reqs' = Append(reqs, [kind |-> "start", cfg |-> cfg])
    /\ session' = NextCall
    /\ UNCHANGED <<arrived, search>>
    /\ UNCHANGED mainVars

\* App.start() up to its await (README.md:95-109); the Start button is
\* enabled unless status is running or starting (README.md:166).
StartClick(cfg) ==
    /\ status \in {"stopped", "error"}
    /\ NextCall <= MaxAppCalls
    /\ Reset
    /\ status' = "starting"
    /\ reqs' = Append(reqs, [kind |-> "start", cfg |-> cfg])
    /\ session' = NextCall
    /\ UNCHANGED <<arrived, search>>
    /\ UNCHANGED mainVars

StartButton == \E cfg \in Configs : StartClick(cfg)

\* App.stop() up to its await (README.md:117-118); the Stop button is
\* enabled while status is running (README.md:169).
StopButton ==
    /\ status = "running"
    /\ NextCall <= MaxAppCalls
    /\ reqs' = Append(reqs, [kind |-> "stop", cfg |-> "-"])
    /\ UNCHANGED <<status, messages, queueRef, pending, arrived, session, search>>
    /\ UNCHANGED mainVars

\* The oldest request reaches ipcMain and its handler is invoked
\* (preload.ts:5-6, part_000:84, 132).
Dispatch ==
    /\ reqs # <<>>
    /\ Request(Head(reqs).kind, Head(reqs).cfg)
    /\ reqs' = Tail(reqs)
    /\ UNCHANGED <<status, messages, queueRef, pending, arrived, session, search>>

\* ReplyArrives with the catch of App.start() missing: a rejected invoke
\* leaves the status as it is.
ReplyArrives_NoCatch ==
    /\ wire # <<>>
    /\ IsReply(Head(wire))
    /\ LET c == calls[Head(wire).reply]
       IN  status' = IF c.kind = "stop" THEN "stopped"
                     ELSE IF c.res = "ok" THEN "running" ELSE status
    /\ wire' = Tail(wire)
    /\ UNCHANGED <<messages, queueRef, pending, reqs, arrived, session, search>>
    /\ UNCHANGED <<consumer, running, kc, calls, ncalls, nsent, message, out>>

\* The invoke promise settles in the page and start()/stop() goes on
\* (README.md:110-114, 119).
ReplyArrives ==
    /\ wire # <<>>
    /\ IsReply(Head(wire))
    /\ LET c == calls[Head(wire).reply]
       IN  status' = IF c.kind = "stop" THEN "stopped"
                     ELSE IF c.res = "ok" THEN "running" ELSE "error"
    /\ wire' = Tail(wire)
    /\ UNCHANGED <<messages, queueRef, pending, reqs, arrived, session, search>>
    /\ UNCHANGED <<consumer, running, kc, calls, ncalls, nsent, message, out>>

\* A kafka:message reaches the onMessage callback (preload.ts:7,
\* README.md:58-60): push on the queue.
OnMessage ==
    /\ wire # <<>>
    /\ ~IsReply(Head(wire))
    /\ Len(queueRef) < MaxQueue
    /\ queueRef' = Append(queueRef, Head(wire))
    /\ wire' = Tail(wire)
    /\ UNCHANGED <<messages, pending, status, reqs, arrived, session, search>>
    /\ UNCHANGED <<consumer, running, kc, calls, ncalls, nsent, message, out>>

NextApp ==
    \/ StartButton
    \/ StopButton
    \/ Dispatch
    \/ MainStep
    \/ ReplyArrives
    \/ OnMessage
    \/ Tick
    \/ RunUpdater
    \/ Clear

SpecApp == Init /\ [][NextApp]_vars

\* ------------------------------------ SpecFilter: the filtered view alone
\* Text is a sequence of characters.  The keys, the values and the search
\* box are made of a lower-case letter with its upper-case form, a second
\* letter and the space.

Chars == {"a", "A", "b", " "}

\* The records kept: key and value of a KafkaMsg (part_000:15-23).
TextRecords == [key : {<<"a">>, <<"A">>, <<"b">>}, value : {<<>>, <<"a">>}]

KeptBuffers == UNION {[1..n -> TextRecords] : n \in 0..MaxKept}

\* String.prototype.toLowerCase.
toLowerCase(s) == [i \in DOMAIN s |-> IF s[i] = "A" THEN "a" ELSE s[i]]

RECURSIVE trimStart(_)
trimStart(s) == IF s # <<>> /\ s[1] = " " THEN trimStart(Tail(s)) ELSE s

RECURSIVE trimEnd(_)
trimEnd(s) ==
    IF s # <<>> /\ s[Len(s)] = " " THEN trimEnd(SubSeq(s, 1, Len(s) - 1)) ELSE s

\* String.prototype.trim.
trim(s) == trimEnd(trimStart(s))

\* String.prototype.includes.
includes(text, q) ==
    \E i \in 0..(Len(text) - Len(q)) : SubSeq(text, i + 1, i + Len(q)) = q

\* The template literal `${m.key} ${m.value}` (README.md:81).
KeyValueText(m) == m.key \o <<" ">> \o m.value

\* Filter that compares the query with the text as it is, not lowercased.
Filter_CaseSensitive(msgs, srch) ==
    LET q == toLowerCase(trim(srch))
    IN  IF q = <<>> THEN msgs
        ELSE SelectSeq(msgs, LAMBDA m : includes(KeyValueText(m), q))

\* The body of the useMemo (README.md:79-81).
Filter(msgs, srch) ==
    LET q == toLowerCase(trim(srch))
    IN  IF q = <<>> THEN msgs
        ELSE SelectSeq(msgs, LAMBDA m : includes(toLowerCase(KeyValueText(m)), q))

\* const filtered = useMemo(..., [messages, search]) (README.md:78-82).
filtered == Filter(messages, search)

\* The search box: onChange calls setSearch(e.target.value) (README.md:175);
\* a character is typed at the end, or the last one is deleted.
Type(ch) ==
    /\ Len(search) < MaxQuery
    /\ search' = Append(search, ch)
    /\ UNCHANGED <<status, messages, queueRef, pending, reqs, arrived, session>>
    /\ UNCHANGED mainVars

TypeKey == \E ch \in Chars : Type(ch)

Backspace ==
    /\ search # <<>>
    /\ search' = SubSeq(search, 1, Len(search) - 1)
    /\ UNCHANGED <<status, messages, queueRef, pending, reqs, arrived, session>>
    /\ UNCHANGED mainVars

\* Any buffer of at most MaxKept records, an empty search box.
InitFilter ==
    /\ consumer = NoConsumer
    /\ running = FALSE
    /\ kc = [c \in CallIds |-> NotMade]
    /\ calls = [i \in CallIds |-> NoCall]
    /\ ncalls = 0
    /\ wire = <<>>
    /\ nsent = 0
    /\ status = "stopped"
    /\ messages \in KeptBuffers
    /\ queueRef = <<>>
    /\ pending = 0
    /\ reqs = <<>>
    /\ arrived = 0
    /\ session = 0
    /\ search = <<>>
    /\ message = NoMessage
    /\ out = NoOut

NextFilter ==
    \/ TypeKey
    \/ Backspace

SpecFilter == InitFilter /\ [][NextFilter]_vars

\* --------------------------------------- SpecNorm: the normalizer alone
\* The part of eachMessage that builds out from message (part_000:102-122);
\* topic, partition and offset are copied and left out.

\* Key and value bytes as the text they decode to; an email address and a
\* long run of digits are among them.
Texts == {"", "k", "bob@example.com", "1234567"}

\* kafkajs hands the timestamp over as a string of decimal digits.
TimestampStrings == {<<>>, <<"0">>, <<"5">>, <<"1", "0">>, <<"-", "1">>}

BrokerMessages ==
    [key : {Absent} \cup {Some(t) : t \in {"", "k", "bob@example.com"}},
     value : {Absent} \cup {Some(t) : t \in {"k", "1234567"}},
     timestamp : {Absent} \cup {Some(t) : t \in TimestampStrings},
     headers : {Absent, Some([h |-> Absent]), Some([h |-> Some("1234567")])}]

\* maskText on the texts above (part_000:28-34): the email pattern matches
\* the whole of "bob@example.com", the long-digits pattern the whole of
\* "1234567", and neither matches in "" or "k".
maskText(input) ==
    CASE input = "bob@example.com" -> "[REDACTED_EMAIL]"
      [] input = "1234567" -> "[REDACTED_NUM]"
      [] OTHER -> input

Digit(ch) == CASE ch = "0" -> 0 [] ch = "1" -> 1 [] ch = "5" -> 5

RECURSIVE Digits(_)
Digits(s) ==
    IF s = <<>> THEN 0
    ELSE 10 * Digits(SubSeq(s, 1, Len(s) - 1)) + Digit(s[Len(s)])

\* Number(string) of a decimal string with an optional sign.
Number(s) == IF s # <<>> /\ s[1] = "-" THEN 0 - Digits(Tail(s)) ELSE Digits(s)

\* message.timestamp ? ... : null (part_000:116): undefined and the empty
\* string are falsy, every other string is truthy.
Truthy(t) == t # Absent /\ t[1] # <<>>

\* The KafkaMsg built from message m by the closure over cfg
\* (part_000:102-122).
Normalized(m, cfg) ==
    LET key == IF m.key # Absent THEN m.key[1] ELSE ""
        value == IF m.value # Absent THEN m.value[1] ELSE ""
        headers ==
            IF m.headers # Absent
            THEN [k \in DOMAIN m.headers[1] |->
                    IF m.headers[1][k] # Absent THEN m.headers[1][k][1] ELSE ""]
            ELSE <<>>
    IN  [built |-> TRUE,
         timestamp |-> IF Truthy(m.timestamp) THEN Some(Number(m.timestamp[1]))
                       ELSE Absent,
         key |-> IF mask[cfg] THEN maskText(key) ELSE key,
         value |-> IF mask[cfg] THEN maskText(value) ELSE value,
         headers |-> IF mask[cfg]
                     THEN [k \in DOMAIN headers |-> maskText(headers[k])]
                     ELSE headers]

\* eachMessage builds out from the message it was called with.
Builds(cfg) ==
    /\ out = NoOut
    /\ out' = Normalized(message, cfg)
    /\ UNCHANGED <<consumer, running, kc, calls, ncalls, wire, nsent, message>>
    /\ UNCHANGED uiVars

\* Any broker message, nothing built yet.
InitNorm ==
    /\ consumer = NoConsumer
    /\ running = FALSE
    /\ kc = [c \in CallIds |-> NotMade]
    /\ calls = [i \in CallIds |-> NoCall]
    /\ ncalls = 0
    /\ wire = <<>>
    /\ nsent = 0
    /\ status = "stopped"
    /\ messages = <<>>
    /\ queueRef = <<>>
    /\ pending = 0
    /\ reqs = <<>>
    /\ arrived = 0
    /\ session = 0
    /\ search = <<>>
    /\ message \in BrokerMessages
    /\ out = NoOut

NextNorm == \E cfg \in Configs : Builds(cfg)

SpecNorm == InitNorm /\ [][NextNorm]_vars

\* ------------------------ SpecAppLive: the App, with a run loop that ends
\* The run loop of a consumer ends on its own (a crash that kafkajs does not
\* restart): kafkajs disconnects the consumer and emits its CRASH event.  The
\* program registers no listener for it and consumer.run() (part_000:98) has
\* resolved long before, so no code of the program runs.
RunLoopEnds(c) ==
    /\ kc[c].loop
    /\ kc' = [kc EXCEPT ![c].loop = FALSE, ![c].connected = FALSE,
                        ![c].crashed = TRUE]
    /\ UNCHANGED <<consumer, running, calls, ncalls, wire, nsent, message, out>>
    /\ UNCHANGED uiVars

Crash == \E c \in CallIds : RunLoopEnds(c)

\* The broker promise that call i awaits settles, either way.
Settles(i) ==
    \/ \E ok, done \in BOOLEAN : StopSettles(i, ok, done)
    \/ \E ok, done \in BOOLEAN : DisconnectSettles(i, ok, done)
    \/ \E ok \in BOOLEAN : ConnectSettles(i, ok)
    \/ \E ok \in BOOLEAN : SubscribeSettles(i, ok)
    \/ \E ok \in BOOLEAN : RunSettles(i, ok)

NextAppLive ==
    \/ NextApp
    \/ Crash

\* Both event loops run every task that is ready, and every awaited broker
\* promise settles; nothing obliges the user to click or the broker to
\* deliver records or to crash.
FairApp ==
    /\ WF_vars(Dispatch)
    /\ WF_vars(ReplyArrives)
    /\ WF_vars(OnMessage)
    /\ WF_vars(Tick)
    /\ WF_vars(RunUpdater)
    /\ \A i \in CallIds : WF_vars(Settles(i))

SpecAppLive == Init /\ [][NextAppLive]_vars /\ FairApp

\* ======================================================= the claims, Spec

Connected == {c \in CallIds : kc[c].connected}
Active == {c \in CallIds : kc[c].connected \/ kc[c].loop}

\* C1: at most one broker consumer is connected at a time, and once the next
\* consumer exists (its connect has begun) every earlier consumer has been
\* stopped and disconnected.
C1_NoOverlap ==
    /\ Cardinality(Connected) <= 1
    /\ \A c, d \in CallIds :
         (kc[c].made /\ kc[d].made /\ c < d) => c \notin Active

\* start(cfgA) is call 1, start(cfgB) call 2, issued before call 1 completed.
StartAThenB ==
    /\ calls[1].kind = "start" /\ calls[1].cfg = "A"
    /\ calls[2].kind = "start" /\ calls[2].cfg = "B"
    /\ calls[2].conc

\* C2: start(cfgA) then start(cfgB) before the first completes; once both
\* have resolved (here: cfgB's call fulfilled) exactly one subscription is
\* active and it is cfgB's: the held consumer was created for cfgB, is
\* subscribed only to cfgB's topic and runs only the callback closed over
\* cfgB.
C2_OnlyCfgB ==
    (StartAThenB /\ calls[1].pc = "done" /\ calls[2].res = "ok")
        => /\ consumer # NoConsumer
           /\ kc[consumer].cfg = "B"
           /\ kc[consumer].topics = {"B"}
           /\ kc[consumer].loop
           /\ kc[consumer].cb = 2
           /\ \A c \in CallIds \ {consumer} : ~kc[c].loop

\* C3: once start(cfgB) has reached Running, no record of cfgA's
\* subscription (received by cfgA's consumer, or built by the callback closed
\* over cfgA) is sent to the sink.
C3_NoRecordOfA ==
    [][(StartAThenB /\ calls[2].res = "ok" /\ nsent' = nsent + 1)
         => /\ wire'[Len(wire')].src # 1
            /\ wire'[Len(wire')].sub # 1]_vars

\* C6: stop() sets the running flag to false at once, and no record is sent
\* to the sink between a stop() request and the next start() request.
C6_NoRecordAfterStop ==
    [][/\ (ncalls' = ncalls + 1 /\ calls'[ncalls'].kind = "stop") => ~running'
       /\ (ncalls > 0 /\ calls[ncalls].kind = "stop" /\ ncalls' = ncalls)
            => nsent' = nsent]_vars

Stopped == ~running /\ consumer = NoConsumer

\* C7: stop() when already Stopped is a no-op that returns success: the
\* call fulfils at once and running, the consumer handle, the consumers and
\* every other call are as before, and nothing is sent; and no stop() call
\* ever settles with an error.
C7_StopIdempotent ==
    [][/\ (Stopped /\ ncalls' = ncalls + 1 /\ calls'[ncalls'].kind = "stop")
            => /\ calls'[ncalls'].pc = "done"
               /\ calls'[ncalls'].res = "ok"
               /\ \A j \in CallIds \ {ncalls'} : calls'[j] = calls[j]
               /\ UNCHANGED <<consumer, running, kc, nsent>>
       /\ \A j \in CallIds : calls'[j].kind = "stop" => calls'[j].res # "err"]_vars

\* Two stop() calls in a row, the second found the system Stopped, both
\* fulfilled.
C7_Witness ==
    /\ ncalls = 2
    /\ calls[1].kind = "stop" /\ calls[1].res = "ok"
    /\ calls[2].kind = "stop" /\ calls[2].res = "ok"
    /\ Stopped

\* C8: when a start() whose connect, subscribe or run step failed returns,
\* its subscription has been torn down (its consumer is not connected, not
\* running and not held) and the running flag is false.
C8_FailedStartStopped ==
    [][\A i \in CallIds :
         (calls[i].kind = "start" /\ InProgress(i) /\ calls'[i].res = "err")
           => /\ ~kc'[i].connected
              /\ ~kc'[i].loop
              /\ ~running']_vars

\* C12: every record sent to the sink is normalized with the masking flag of
\* the start() call that created the consumer which received it (a record
\* is built with cfg.mask of the closure r.src, part_000:117-121); and
\* while the held consumer was created by a start() with masking on, no
\* record is sent unmasked.
C12_MaskOfItsSubscription ==
    [][nsent' = nsent + 1
         => LET r == wire'[Len(wire')]
            IN  /\ mask[calls'[r.src].cfg] = mask[kc'[r.sub].cfg]
                /\ (consumer' # NoConsumer /\ mask[kc'[consumer'].cfg])
                      => mask[calls'[r.src].cfg]]_vars

\* C13: when consumer.stop() or consumer.disconnect() throws inside a
\* stop() call, the failure is swallowed: the call returns success, and when
\* it returns the running flag is false and no consumer is held.
C13_StopSwallows ==
    [][\A i \in CallIds, done \in BOOLEAN :
         (/\ calls[i].kind = "stop"
          /\ StopSettles(i, FALSE, done) \/ DisconnectSettles(i, FALSE, done))
           => /\ calls'[i].pc = "done"
              /\ calls'[i].res = "ok"
              /\ ~running'
              /\ consumer' = NoConsumer]_vars

\* No handler invocation is in progress.
Quiescent == \A i \in CallIds : ~InProgress(i)

\* The last request was a stop() that arrived while a start() was in
\* progress, and every call has returned.
StopDuringStartDone ==
    /\ ncalls >= 2
    /\ calls[ncalls].kind = "stop"
    /\ calls[ncalls].conc
    /\ calls[ncalls - 1].kind = "start"
    /\ Quiescent

\* C19: when a stop() arrived while a start() was in progress and both have
\* returned, the system is Stopped: running is false, no consumer is held,
\* none is connected and none runs its loop (so no record is delivered
\* afterwards); and whenever no call is in progress, running = true implies
\* that a consumer is held.
C19_StopDuringStart ==
    /\ StopDuringStartDone
         => (~running /\ consumer = NoConsumer /\ Active = {})
    /\ (Quiescent /\ running) => consumer # NoConsumer

\* C20: no broker connection is leaked: when the consumer handle is
\* cleared or replaced, the consumer it referred to is disconnected; and
\* every connected consumer is the held one.
C20_NoLeak ==
    [][/\ (consumer # NoConsumer /\ consumer' # consumer)
            => ~kc'[consumer].connected
       /\ Connected' \subseteq {consumer'}]_vars

\* ==================================================== the claims, SpecBuf

\* C4: the RetainedBuffer (messages) holds at most MAX_MESSAGES = 500
\* records in every reachable state.
C4_AtMostCapacity == Len(messages) <= MAX_MESSAGES

\* More records than the capacity were drained and the buffer is full.
C4_Witness ==
    /\ arrived - Len(queueRef) > MAX_MESSAGES
    /\ Len(messages) = MAX_MESSAGES

Drained == arrived - Len(queueRef)

Min(a, b) == IF a < b THEN a ELSE b

\* C5: the RetainedBuffer is the last min(500, k) of the k records drained
\* since the last reset, in arrival order.
C5_LastRecordsInOrder ==
    LET m == Min(MAX_MESSAGES, Drained)
    IN  messages = [j \in 1..m |-> Msg(session, session, Drained - m + j)]

\* 600 records drained: exactly records 101..600 are left.
C5_Witness ==
    /\ arrived = 600
    /\ queueRef = <<>>
    /\ Len(messages) = MAX_MESSAGES
    /\ messages[1].n = 101
    /\ messages[MAX_MESSAGES].n = 600

\* ============================================== the claims, SpecBufStrict

\* C11: between resets every record pushed on the queue is appended to the
\* RetainedBuffer by exactly one drain: the buffer followed by the queue is
\* a run of consecutive records ending at the newest one pushed (none twice,
\* none missing, in order), and the buffer has lost nothing but what the
\* capacity evicted.
C11_ExactlyOnce ==
    LET all == messages \o queueRef
    IN  /\ \A j \in 1..Len(all) :
             all[j] = Msg(session, session, arrived - Len(all) + j)
        /\ Len(messages) = Min(MAX_MESSAGES, arrived - Len(queueRef))

\* ==================================================== the claims, SpecApp

\* C9: at the moment start() succeeds (status becomes running) the
\* RetainedBuffer is empty.
C9_EmptyAtSuccess ==
    [][(status # "running" /\ status' = "running") => messages' = <<>>]_vars

Buffered == {queueRef[j] : j \in DOMAIN queueRef} \cup {messages[j] : j \in DOMAIN messages}

\* C10: a reset empties the transient queue and the RetainedBuffer together,
\* and no record built by the callback of a subscription older than the one
\* the last start-reset belongs to is in the queue or the buffer.
C10_NoStaleRecord ==
    [][/\ session' # session => (messages' = <<>> /\ queueRef' = <<>>)
       /\ \A r \in Buffered' : r.src >= session']_vars

\* A start() is issued by the page: a start request is put on the channel.
StartIssued ==
    /\ Len(reqs') = Len(reqs) + 1
    /\ reqs'[Len(reqs')].kind = "start"

\* The reply of a start() that rejected reaches the page.
StartFailureArrives ==
    /\ wire # <<>>
    /\ IsReply(Head(wire))
    /\ wire' = Tail(wire)
    /\ calls[Head(wire).reply].kind = "start"
    /\ calls[Head(wire).reply].res = "err"

\* C14: the status follows Stopped -> Starting -> Running -> Stopped:
\* Starting is entered only from Stopped, and a start() failure during
\* Starting puts the status back to Stopped.
C14_StartingOnlyFromStopped ==
    [][/\ StartIssued => (status = "stopped" /\ status' = "starting")
       /\ StartFailureArrives => status' = "stopped"
       /\ status' # status
            => <<status, status'>> \in {<<"stopped", "starting">>,
                                        <<"starting", "running">>,
                                        <<"running", "stopped">>,
                                        <<"starting", "stopped">>}]_vars

\* C14 (amended): Starting is entered only by issuing a start(), only from
\* Stopped or Error and never from Running or Starting; a start() failure
\* puts the status into Error, not Stopped.
C14_StartingFromStoppedOrError ==
    [][/\ StartIssued => (status \in {"stopped", "error"} /\ status' = "starting")
       /\ status' = "starting" => (status = "starting" \/ StartIssued)
       /\ StartFailureArrives => status' = "error"]_vars

\* The first start() failed, its reply put the status into Error, and a
\* second start() has been issued from there.
C14_Witness ==
    /\ status = "starting"
    /\ session = 2
    /\ calls[1].kind = "start"
    /\ calls[1].res = "err"
    /\ \A j \in DOMAIN wire : wire[j] # Reply(1)

\* The reply of a start() that resolved reaches the page.
StartSuccessArrives ==
    /\ wire # <<>>
    /\ IsReply(Head(wire))
    /\ wire' = Tail(wire)
    /\ calls[Head(wire).reply].kind = "start"
    /\ calls[Head(wire).reply].res = "ok"

\* C16: a start() that rejected puts the status into error, which is
\* neither stopped nor running; a start() that resolved puts it into
\* running; and the status becomes running in no other way, so never by a
\* start() that rejected.
C16_FailureIsError ==
    [][/\ StartFailureArrives
            => (status' = "error" /\ status' \notin {"stopped", "running"})
       /\ StartSuccessArrives => status' = "running"
       /\ (status # "running" /\ status' = "running") => StartSuccessArrives]_vars

\* The only start() so far rejected, its reply has reached the page and the
\* status is error.
C16_Witness ==
    /\ status = "error"
    /\ ncalls = 1
    /\ reqs = <<>>
    /\ calls[1].kind = "start"
    /\ calls[1].res = "err"
    /\ wire = <<>>

\* ================================================= the claims, SpecFilter

\* The query without its leading and trailing spaces: the part c of s with
\* only spaces before and after it that neither starts nor ends with one.
Core(s) ==
    CHOOSE c \in {SubSeq(s, a, b) : a \in 1..(Len(s) + 1), b \in 0..Len(s)} :
        \E a \in 1..(Len(s) + 1), b \in 0..Len(s) :
            /\ c = SubSeq(s, a, b)
            /\ \A i \in 1..(a - 1) : s[i] = " "
            /\ \A i \in (b + 1)..Len(s) : s[i] = " "
            /\ c = <<>> \/ (c[1] # " " /\ c[Len(c)] # " ")

\* a and b are the same text but for the case of their letters.
SameButCase(a, b) ==
    /\ Len(a) = Len(b)
    /\ \A i \in DOMAIN a : a[i] = b[i] \/ {a[i], b[i]} = {"a", "A"}

\* Record m matches query q: some stretch of key, space, value is q but for
\* the case of the letters.
Matches(m, q) ==
    LET text == m.key \o <<" ">> \o m.value
    IN  \E i \in 1..(Len(text) + 1), j \in 0..Len(text) :
            SameButCase(SubSeq(text, i, j), q)

\* C17: filter returns exactly the records whose lowercased key, separator,
\* value text contains the trimmed, lowercased query, in their order in the
\* buffer; an empty or whitespace-only query returns the whole buffer, and a
\* query that no record contains returns the empty sequence.
C17_FilterIsMatchingSubsequence ==
    LET q == Core(search)
        hits == {i \in DOMAIN messages : Matches(messages[i], q)}
    IN  /\ Len(filtered) = Cardinality(hits)
        /\ \E f \in [DOMAIN filtered -> hits] :
              /\ \A j, k \in DOMAIN filtered : j < k => f[j] < f[k]
              /\ \A j \in DOMAIN filtered : filtered[j] = messages[f[j]]
        /\ (\A i \in DOMAIN search : search[i] = " ") => filtered = messages
        /\ (q # <<>> /\ hits = {}) => filtered = <<>>

\* A query with a space before it and an upper-case letter selects one of
\* two records, whose key has the letter in lower case.
C17_Witness ==
    /\ search = <<" ", "A">>
    /\ Len(messages) = 2
    /\ messages[1].key = <<"b">> /\ messages[1].value = <<>>
    /\ messages[2].key = <<"a">>
    /\ filtered = <<messages[2]>>

\* =================================================== the claims, SpecNorm

\* The broker timestamp is absent, unset (empty) or zero.
ZeroOrUnset(t) == t = Absent \/ t = Some(<<>>) \/ t = Some(<<"0">>)

\* The integer a timestamp string stands for.
Millis(t) ==
    CASE t = <<"0">> -> 0
      [] t = <<"5">> -> 5
      [] t = <<"1", "0">> -> 10
      [] t = <<"-", "1">> -> 0 - 1

\* C18: the normalizer never yields a null or undefined key or value (an
\* absent key or value becomes the empty string), maps an absent, zero or
\* unset broker timestamp to null and any other timestamp to the integer it
\* stands for.
C18_NormalizedFields ==
    out # NoOut
        => /\ out.key \in Texts \cup {maskText(t) : t \in Texts}
           /\ out.value \in Texts \cup {maskText(t) : t \in Texts}
           /\ message.key = Absent => out.key = ""
           /\ message.value = Absent => out.value = ""
           /\ ZeroOrUnset(message.timestamp) => out.timestamp = Absent
           /\ ~ZeroOrUnset(message.timestamp)
                => out.timestamp = Some(Millis(message.timestamp[1]))

\* ================================================ the claims, SpecAppLive

\* C15: if the run loop of the held consumer has ended on its own, then
\* eventually the running flag is false and the status is no longer
\* running.
C15_LoopEndLeadsToStopped ==
    (consumer # NoConsumer /\ kc[consumer].crashed)
        ~> (~running /\ status # "running")

====
